---- MODULE Spec2Model ----
(***************************************************************************)
(* Model of the C bridge around the WebRTC AudioProcessing engine          *)
(* (bridge.cpp / bridge.h).  The engine is an external collaborator: the   *)
(* calls the bridge makes to it are recorded, the values it returns are    *)
(* chosen nondeterministically from small sets.  Arrays are functions on   *)
(* 0..n-1, as in the source.                                               *)
(***************************************************************************)
EXTENDS Integers, Sequences, FiniteSets, TLC

(* ------------------------------ bounds --------------------------------- *)
MaxHandles == 1
MaxCh == 2
MaxCodecCh == 2
MaxCodecSamples == 2
MaxSample == 2

(* ------------------------- program constants --------------------------- *)
APM_SAMPLE_RATE_HZ == 48000
APM_FRAME_MS == 10
APM_NUM_SAMPLES_PER_FRAME == (APM_SAMPLE_RATE_HZ * APM_FRAME_MS) \div 1000

\* webrtc::AudioProcessing::Error values used by the bridge
kNoError == 0
kBadParameterError == 0 - 6
kBadNumberChannelsError == 0 - 9
kStreamParameterNotSetError == 0 - 11
\* the literals the bridge returns itself
kBuildFailedCode == 0 - 2
kReverseIntNullCode == 0 - 1

NULL == 0

Array(n, v) == [i \in 0..(n - 1) |-> v]

(* --------------------------- interleave codec -------------------------- *)
\* a deinterleave that reads its source as if it were already planar
deinterleave_strided(src, dst, num_channels, num_samples) ==
    [ch \in DOMAIN dst |->
        [i \in DOMAIN dst[ch] |->
            IF ch < num_channels /\ i < num_samples
            THEN src[ch * num_samples + i]
            ELSE dst[ch][i]]]

\* dst[ch][i] = src[i * num_channels + ch] for ch < num_channels, i < num_samples
deinterleave(src, dst, num_channels, num_samples) ==
    [ch \in DOMAIN dst |->
        [i \in DOMAIN dst[ch] |->
            IF ch < num_channels /\ i < num_samples
            THEN src[i * num_channels + ch]
            ELSE dst[ch][i]]]

\* dst[i * num_channels + ch] = src[ch][i] for ch < num_channels, i < num_samples
interleave(src, dst, num_channels, num_samples) ==
    [k \in DOMAIN dst |->
        IF num_channels > 0 /\ k < num_channels * num_samples
        THEN src[k % num_channels][k \div num_channels]
        ELSE dst[k]]

(* ------------------------ configuration translator --------------------- *)
\* webrtc::AudioProcessing::Config as default-constructed by the engine headers
DefaultEngineConfig ==
    [high_pass_filter |-> [enabled |-> FALSE],
     echo_canceller |-> [enabled |-> FALSE, mobile_mode |-> FALSE,
                         enforce_high_pass_filtering |-> TRUE],
     gain_controller1 |-> [enabled |-> FALSE, mode |-> 0, target_level_dbfs |-> 3,
                           compression_gain_db |-> 9, enable_limiter |-> TRUE],
     noise_suppression |-> [enabled |-> FALSE, level |-> 1]]

parseConfig_norule(apmConfig) ==
    LET c1 == [DefaultEngineConfig EXCEPT
                 !.high_pass_filter.enabled = apmConfig.high_pass_filter_enabled,
                 !.echo_canceller.enabled = apmConfig.echo_cancellation.enabled,
                 !.echo_canceller.mobile_mode = apmConfig.echo_cancellation.mobile_mode]
    IN  [c1 EXCEPT
           !.gain_controller1.enabled = apmConfig.gain_control.enabled,
           !.gain_controller1.mode = apmConfig.gain_control.mode,
           !.gain_controller1.target_level_dbfs = apmConfig.gain_control.target_level_dbfs,
           !.gain_controller1.compression_gain_db = apmConfig.gain_control.compression_gain_db,
           !.gain_controller1.enable_limiter = (apmConfig.gain_control.enable_limiter # 0),
           !.noise_suppression.enabled = apmConfig.noise_suppression.enabled,
           !.noise_suppression.level = apmConfig.noise_suppression.suppression_level]

parseConfig(apmConfig) ==
    LET c1 == [DefaultEngineConfig EXCEPT
                 !.high_pass_filter.enabled = apmConfig.high_pass_filter_enabled,
                 !.echo_canceller.enabled = apmConfig.echo_cancellation.enabled,
                 !.echo_canceller.mobile_mode = apmConfig.echo_cancellation.mobile_mode]
        c2 == IF ~c1.high_pass_filter.enabled
              THEN [c1 EXCEPT !.echo_canceller.enforce_high_pass_filtering = FALSE]
              ELSE c1
    IN  [c2 EXCEPT
           !.gain_controller1.enabled = apmConfig.gain_control.enabled,
           !.gain_controller1.mode = apmConfig.gain_control.mode,
           !.gain_controller1.target_level_dbfs = apmConfig.gain_control.target_level_dbfs,
           !.gain_controller1.compression_gain_db = apmConfig.gain_control.compression_gain_db,
           !.gain_controller1.enable_limiter = (apmConfig.gain_control.enable_limiter # 0),
           !.noise_suppression.enabled = apmConfig.noise_suppression.enabled,
           !.noise_suppression.level = apmConfig.noise_suppression.suppression_level]

\* host configurations (ApmConfig), the fields bridge.cpp reads
StreamDelays == {0, 40}
AgcModes == 0..2
NsLevels == 0..3
ApmConfigs(chans) ==
    [high_pass_filter_enabled : BOOLEAN,
     echo_cancellation : [enabled : BOOLEAN, mobile_mode : BOOLEAN,
                          stream_delay : StreamDelays],
     gain_control : [enabled : BOOLEAN, mode : AgcModes, target_level_dbfs : {3},
                     compression_gain_db : {9}, enable_limiter : {0, 1}],
     noise_suppression : [enabled : BOOLEAN, suppression_level : NsLevels],
     capture_channels : chans,
     render_channels : chans]

\* the configurations a session of the full bridge model draws from
SessionConfig(hpf, aec, cap, ren) ==
    [high_pass_filter_enabled |-> hpf,
     echo_cancellation |-> [enabled |-> aec, mobile_mode |-> FALSE, stream_delay |-> 40],
     gain_control |-> [enabled |-> FALSE, mode |-> 1, target_level_dbfs |-> 3,
                       compression_gain_db |-> 9, enable_limiter |-> 1],
     noise_suppression |-> [enabled |-> FALSE, suppression_level |-> 2],
     capture_channels |-> cap,
     render_channels |-> ren]
SessionConfigs(chans) ==
    {SessionConfig(f[1], f[2], cap, ren) :
        f \in {<<TRUE, FALSE>>, <<FALSE, TRUE>>}, cap \in chans, ren \in chans}

(* -------------------------------- state -------------------------------- *)
VARIABLES
    heap,      \* address -> AudioProcessor, for every aggregate allocated and not deleted
    handles,   \* handles Create returned to the host that the host has not destroyed
    proc,      \* "running", or "aborted" after an uncaught exception or a fault
    last,      \* the last entry-point call: arguments, engine calls made, results
    codec,     \* harness state for the two codec helpers taken alone
    xlat       \* harness state for the configuration translator taken alone

vars == <<heap, handles, proc, last, codec, xlat>>

Addrs == 1..MaxHandles

\* a sample buffer argument: a null pointer, or a pointer to an array
NullBuffer == [is_null |-> TRUE, data |-> Array(0, 0)]
Buffer(a) == [is_null |-> FALSE, data |-> a]

Optional(v) == [has_value |-> TRUE, value |-> v]
NoValue == [has_value |-> FALSE, value |-> 0]
value_or(opt, d) == IF opt.has_value THEN opt.value ELSE d

ZeroStats ==
    [residual_echo_likelihood |-> 0, echo_return_loss |-> 0,
     echo_return_loss_enhancement |-> 0, divergent_filter_fraction |-> 0,
     delay_median_ms |-> 0, delay_std_ms |-> 0, delay_ms |-> 0]

NoCall ==
    [op |-> "none", handle |-> NULL, num_channels |-> 0, returned |-> TRUE,
     ret |-> 0, error_code |-> 0, samples_in |-> NullBuffer, samples_out |-> NullBuffer,
     engine |-> <<>>, null_deref |-> FALSE, config |-> <<>>, stats |-> ZeroStats]

\* one call the bridge makes to the engine, with what the engine returned
EngineCall(fn, arg, ret) == [fn |-> fn, arg |-> arg, ret |-> ret]

(* ------------------------ the AudioProcessor aggregate ----------------- *)
StreamConfig(sample_rate_hz, num_channels) ==
    [sample_rate_hz |-> sample_rate_hz, num_channels |-> num_channels]

\* a default-constructed AudioProcessor (new AudioProcessor)
NewAudioProcessor ==
    [processor |-> FALSE,
     capture_stream_config |-> StreamConfig(0, 0),
     render_stream_config |-> StreamConfig(0, 0),
     capture_channels |-> 0,
     render_channels |-> 0,
     capture_buffer |-> Array(0, Array(0, 0)),
     render_buffer |-> Array(0, Array(0, 0)),
     capture_ptrs |-> Array(0, 0),
     render_ptrs |-> Array(0, 0)]

\* the address of the samples of one per-channel vector (vector::data())
Ptr(a, field, i) == [base |-> a, field |-> field, index |-> i]
Load(h, p) == h[p.base][p.field][p.index]

\* buffer.resize(n); buffer[i].resize(APM_NUM_SAMPLES_PER_FRAME): value-initialised
AllocBuffer(n) == Array(n, Array(APM_NUM_SAMPLES_PER_FRAME, 0))

\* ptrs.resize(n); ptrs[i] = buffer[i].data()
BindPtrs_first(a, field, n) == [i \in 0..(n - 1) |-> Ptr(a, field, 0)]

BindPtrs(a, field, n) == [i \in 0..(n - 1) |-> Ptr(a, field, i)]

\* vector::resize with a negative int: the size_t it converts to exceeds max_size()
ResizeThrows(n) == n < 0

(* ------------------------------ the engine ----------------------------- *)
\* what the engine may do to the samples it is handed, and the status it reports
EngineEffects == {"identity", "negate"}
ProcessStatuses == {kNoError, kStreamParameterNotSetError}
EngineOutcomes ==
    {o \in [status : ProcessStatuses, effect : EngineEffects] :
        o.status = kNoError \/ o.effect = "negate"}
InitCodes == {kNoError, kBadNumberChannelsError}
EngineDelays == {0, 40}
EngineStats ==
    {[residual_echo_likelihood |-> o, echo_return_loss |-> o,
      echo_return_loss_enhancement |-> NoValue, divergent_filter_fraction |-> o,
      delay_median_ms |-> d, delay_standard_deviation_ms |-> NoValue, delay_ms |-> d] :
        o \in {NoValue, Optional(1)}, d \in {Optional(40)}}

ApplyEffect(e, arr) ==
    IF e = "negate" THEN [i \in DOMAIN arr |-> 0 - arr[i]] ELSE arr

\* AudioProcessing::ProcessStream / ProcessReverseStream on channel pointers:
\* reads the channels src[k] of the frame handed in, writes the channels dest[k]
RECURSIVE EngineWriteChannels(_, _, _, _, _, _)
EngineWriteChannels(h_in, h, src, dest, e, n) ==
    IF n = 0 THEN h
    ELSE LET p == dest[n - 1]
             h_out == [h EXCEPT ![p.base][p.field][p.index] =
                                    ApplyEffect(e, Load(h_in, src[n - 1]))]
         IN  EngineWriteChannels(h_in, h_out, src, dest, e, n - 1)

EngineProcessPlanar(h, src, input_config, output_config, dest, e) ==
    EngineWriteChannels(h, h, src, dest, e, output_config.num_channels)

\* the int16 overloads: the engine works on the interleaved array itself
EngineProcessInterleaved(samples, e) == ApplyEffect(e, samples)

(* ------------------------------ lifecycle ------------------------------ *)
\* operator new / delete on AudioProcessor; new is modelled as first fit
NewAddr(h) == CHOOSE a \in Addrs \ DOMAIN h : \A b \in Addrs \ DOMAIN h : a <= b
Delete(h, a) == [x \in (DOMAIN h) \ {a} |-> h[x]]

\* if (apmConfig.capture_channels == 0 || apmConfig.render_channels == 0)
CreateRejects_both(apmConfig) ==
    apmConfig.capture_channels = 0 /\ apmConfig.render_channels = 0

CreateRejects(apmConfig) ==
    apmConfig.capture_channels = 0 \/ apmConfig.render_channels = 0

\* the builder may yield no engine (built); the engine's Initialize returns code
Create(apmConfig) ==
    /\ proc = "running"
    /\ CreateRejects(apmConfig) \/ Addrs \ DOMAIN heap # {}
    /\ UNCHANGED <<codec, xlat>>
    /\ LET call == [NoCall EXCEPT !.op = "Create", !.config = apmConfig]
       IN
       IF CreateRejects(apmConfig)
       THEN /\ last' = [call EXCEPT !.error_code = kBadParameterError, !.ret = NULL]
            /\ UNCHANGED <<heap, handles, proc>>
       ELSE \E built \in BOOLEAN :
            \E code \in (IF built THEN InitCodes ELSE {kNoError}) :
            LET a == NewAddr(heap)
                config == parseConfig(apmConfig)
                build == <<EngineCall("Build", config, built)>>
                ap1 == [NewAudioProcessor EXCEPT !.processor = built]
                ap2 == [ap1 EXCEPT
                          !.capture_stream_config =
                              StreamConfig(APM_SAMPLE_RATE_HZ, apmConfig.capture_channels),
                          !.render_stream_config =
                              StreamConfig(APM_SAMPLE_RATE_HZ, apmConfig.render_channels)]
                pconfig == <<ap2.capture_stream_config, ap2.capture_stream_config,
                             ap2.render_stream_config, ap2.render_stream_config>>
                ap3 == [ap2 EXCEPT !.capture_channels = apmConfig.capture_channels,
                                   !.render_channels = apmConfig.render_channels]
                init == build \o <<EngineCall("Initialize", pconfig, code)>>
                hint == IF apmConfig.echo_cancellation.enabled
                        THEN init \o <<EngineCall("set_stream_delay_ms",
                                                  apmConfig.echo_cancellation.stream_delay,
                                                  0)>>
                        ELSE init
                ap4 == [ap3 EXCEPT
                          !.capture_buffer = AllocBuffer(apmConfig.capture_channels),
                          !.capture_ptrs = BindPtrs(a, "capture_buffer",
                                                    apmConfig.capture_channels)]
                ap5 == [ap4 EXCEPT
                          !.render_buffer = AllocBuffer(apmConfig.render_channels),
                          !.render_ptrs = BindPtrs(a, "render_buffer",
                                                   apmConfig.render_channels)]
            IN
            IF ~ap1.processor
            THEN \* delete ap; return nullptr
                 /\ last' = [call EXCEPT !.error_code = kBuildFailedCode, !.ret = NULL,
                                         !.engine = build]
                 /\ UNCHANGED <<heap, handles, proc>>
            ELSE IF code # kNoError
            THEN \* delete ap; return nullptr
                 /\ last' = [call EXCEPT !.error_code = code, !.ret = NULL, !.engine = init]
                 /\ UNCHANGED <<heap, handles, proc>>
            ELSE IF ResizeThrows(apmConfig.capture_channels)
            THEN \* std::length_error leaves Create; ap is never deleted
                 /\ last' = [call EXCEPT !.returned = FALSE, !.engine = hint]
                 /\ heap' = (a :> ap3) @@ heap
                 /\ proc' = "aborted"
                 /\ UNCHANGED handles
            ELSE IF ResizeThrows(apmConfig.render_channels)
            THEN /\ last' = [call EXCEPT !.returned = FALSE, !.engine = hint]
                 /\ heap' = (a :> ap4) @@ heap
                 /\ proc' = "aborted"
                 /\ UNCHANGED handles
            ELSE /\ last' = [call EXCEPT !.ret = a, !.engine = hint]
                 /\ heap' = (a :> ap5) @@ heap
                 /\ handles' = handles \cup {a}
                 /\ UNCHANGED proc

Destroy(handle) ==
    /\ proc = "running"
    /\ last' = [NoCall EXCEPT !.op = "Destroy", !.handle = handle]
    /\ IF handle # NULL
       THEN /\ heap' = Delete(heap, handle)
            /\ handles' = handles \ {handle}
       ELSE UNCHANGED <<heap, handles>>
    /\ UNCHANGED <<proc, codec, xlat>>

Initialize(handle) ==
    /\ proc = "running"
    /\ last' = [NoCall EXCEPT !.op = "Initialize", !.handle = handle,
                              !.engine = IF handle # NULL
                                         THEN <<EngineCall("Initialize", <<>>, 0)>>
                                         ELSE <<>>]
    /\ UNCHANGED <<heap, handles, proc, codec, xlat>>

\* no null check: with a null handle ap->processor reads through a null pointer,
\* which either ends the process (faults) or goes unnoticed
ApplyConfig(handle, apmConfig) ==
    /\ proc = "running"
    /\ LET config == parseConfig(apmConfig)
           call == [NoCall EXCEPT !.op = "ApplyConfig", !.handle = handle,
                                  !.config = apmConfig]
       IN
       IF handle = NULL
       THEN \E faults \in BOOLEAN :
            /\ last' = [call EXCEPT !.null_deref = TRUE, !.returned = ~faults]
            /\ proc' = IF faults THEN "aborted" ELSE "running"
       ELSE /\ last' = [call EXCEPT !.engine = <<EngineCall("ApplyConfig", config, 0)>>]
            /\ UNCHANGED proc
    /\ UNCHANGED <<heap, handles, codec, xlat>>

(* ------------------------------ processing ----------------------------- *)
\* if (num_channels != ap->capture_channels) / ap->render_channels
ChannelCountRejected_above(num_channels, expected) == num_channels > expected

ChannelCountRejected(num_channels, expected) == num_channels # expected

\* if (result == webrtc::AudioProcessing::kNoError): interleave back
EngineSucceeded_always(result) == TRUE

EngineSucceeded(result) == result = kNoError

ProcessStream(handle, samples, num_channels) ==
    /\ proc = "running"
    /\ LET call == [NoCall EXCEPT !.op = "ProcessStream", !.handle = handle,
                                  !.num_channels = num_channels,
                                  !.samples_in = samples, !.samples_out = samples]
       IN
       IF handle = NULL \/ samples.is_null
       THEN /\ last' = [call EXCEPT !.ret = kBadParameterError]
            /\ UNCHANGED heap
       ELSE LET ap == heap[handle] IN
            IF ChannelCountRejected(num_channels, ap.capture_channels)
            THEN /\ last' = [call EXCEPT !.ret = kBadParameterError]
                 /\ UNCHANGED heap
            ELSE \E o \in EngineOutcomes :
                 LET h1 == [heap EXCEPT ![handle].capture_buffer =
                               deinterleave(samples.data, @, num_channels,
                                            APM_NUM_SAMPLES_PER_FRAME)]
                     h2 == EngineProcessPlanar(h1, ap.capture_ptrs, ap.capture_stream_config,
                                               ap.capture_stream_config, ap.capture_ptrs, o.effect)
                     result == o.status
                     out == IF EngineSucceeded(result)
                            THEN interleave(h2[handle].capture_buffer, samples.data,
                                            num_channels, APM_NUM_SAMPLES_PER_FRAME)
                            ELSE samples.data
                 IN  /\ heap' = h2
                     /\ last' = [call EXCEPT
                                   !.ret = result,
                                   !.samples_out = Buffer(out),
                                   !.engine = <<EngineCall("ProcessStream",
                                       [src |-> ap.capture_ptrs, dest |-> ap.capture_ptrs,
                                        input_config |-> ap.capture_stream_config,
                                        output_config |-> ap.capture_stream_config],
                                       result)>>]
    /\ UNCHANGED <<handles, proc, codec, xlat>>

ProcessIntStream(handle, samples, num_channels) ==
    /\ proc = "running"
    /\ LET call == [NoCall EXCEPT !.op = "ProcessIntStream", !.handle = handle,
                                  !.num_channels = num_channels,
                                  !.samples_in = samples, !.samples_out = samples]
       IN
       IF handle = NULL \/ samples.is_null
       THEN last' = [call EXCEPT !.ret = kBadParameterError]
       ELSE LET ap == heap[handle] IN
            IF ChannelCountRejected(num_channels, ap.capture_channels)
            THEN last' = [call EXCEPT !.ret = kBadParameterError]
            ELSE \E o \in EngineOutcomes :
                 last' = [call EXCEPT
                            !.ret = o.status,
                            !.samples_out =
                                Buffer(EngineProcessInterleaved(samples.data, o.effect)),
                            !.engine = <<EngineCall("ProcessStream",
                                [src |-> "samples", dest |-> "samples",
                                 input_config |-> ap.capture_stream_config,
                                 output_config |-> ap.capture_stream_config],
                                o.status)>>]
    /\ UNCHANGED <<heap, handles, proc, codec, xlat>>

ProcessReverseStream(handle, samples, num_channels) ==
    /\ proc = "running"
    /\ LET call == [NoCall EXCEPT !.op = "ProcessReverseStream", !.handle = handle,
                                  !.num_channels = num_channels,
                                  !.samples_in = samples, !.samples_out = samples]
       IN
       IF handle = NULL \/ samples.is_null
       THEN /\ last' = [call EXCEPT !.ret = kBadParameterError]
            /\ UNCHANGED heap
       ELSE LET ap == heap[handle] IN
            IF ChannelCountRejected(num_channels, ap.render_channels)
            THEN /\ last' = [call EXCEPT !.ret = kBadParameterError]
                 /\ UNCHANGED heap
            ELSE \E o \in EngineOutcomes :
                 LET h1 == [heap EXCEPT ![handle].render_buffer =
                               deinterleave(samples.data, @, num_channels,
                                            APM_NUM_SAMPLES_PER_FRAME)]
                     h2 == EngineProcessPlanar(h1, ap.render_ptrs, ap.render_stream_config,
                                               ap.render_stream_config, ap.render_ptrs, o.effect)
                     result == o.status
                     out == IF EngineSucceeded(result)
                            THEN interleave(h2[handle].render_buffer, samples.data,
                                            num_channels, APM_NUM_SAMPLES_PER_FRAME)
                            ELSE samples.data
                 IN  /\ heap' = h2
                     /\ last' = [call EXCEPT
                                   !.ret = result,
                                   !.samples_out = Buffer(out),
                                   !.engine = <<EngineCall("ProcessReverseStream",
                                       [src |-> ap.render_ptrs, dest |-> ap.render_ptrs,
                                        input_config |-> ap.render_stream_config,
                                        output_config |-> ap.render_stream_config],
                                       result)>>]
    /\ UNCHANGED <<handles, proc, codec, xlat>>

ProcessReverseIntStream(handle, samples, num_channels) ==
    /\ proc = "running"
    /\ LET call == [NoCall EXCEPT !.op = "ProcessReverseIntStream", !.handle = handle,
                                  !.num_channels = num_channels,
                                  !.samples_in = samples, !.samples_out = samples]
       IN
       IF handle = NULL \/ samples.is_null
       THEN last' = [call EXCEPT !.ret = kReverseIntNullCode]
       ELSE LET ap == heap[handle] IN
            IF ChannelCountRejected(num_channels, ap.render_channels)
            THEN last' = [call EXCEPT !.ret = kBadParameterError]
            ELSE \E o \in EngineOutcomes :
                 last' = [call EXCEPT
                            !.ret = o.status,
                            !.samples_out =
                                Buffer(EngineProcessInterleaved(samples.data, o.effect)),
                            !.engine = <<EngineCall("ProcessReverseStream",
                                [src |-> "samples", dest |-> "samples",
                                 input_config |-> ap.render_stream_config,
                                 output_config |-> ap.render_stream_config],
                                o.status)>>]
    /\ UNCHANGED <<heap, handles, proc, codec, xlat>>

(* --------------------------- statistics and hints ---------------------- *)
GetStatistics(handle) ==
    /\ proc = "running"
    /\ LET call == [NoCall EXCEPT !.op = "GetStatistics", !.handle = handle]
       IN
       IF handle = NULL
       THEN last' = [call EXCEPT !.stats = ZeroStats]
       ELSE \E s \in EngineStats :
            last' = [call EXCEPT
               !.engine = <<EngineCall("GetStatistics", <<>>, 0)>>,
               !.stats =
                   [residual_echo_likelihood |-> value_or(s.residual_echo_likelihood, 0),
                    echo_return_loss |-> value_or(s.echo_return_loss, 0),
                    echo_return_loss_enhancement |->
                        value_or(s.echo_return_loss_enhancement, 0),
                    divergent_filter_fraction |-> value_or(s.divergent_filter_fraction, 0),
                    delay_median_ms |-> value_or(s.delay_median_ms, 0),
                    delay_std_ms |-> value_or(s.delay_standard_deviation_ms, 0),
                    delay_ms |-> value_or(s.delay_ms, 0)]]
    /\ UNCHANGED <<heap, handles, proc, codec, xlat>>

set_stream_delay_ms(handle, delay_ms) ==
    /\ proc = "running"
    /\ last' = [NoCall EXCEPT !.op = "set_stream_delay_ms", !.handle = handle,
                              !.engine = IF handle = NULL THEN <<>>
                                         ELSE <<EngineCall("set_stream_delay_ms", delay_ms, 0)>>]
    /\ UNCHANGED <<heap, handles, proc, codec, xlat>>

stream_delay_ms(handle) ==
    /\ proc = "running"
    /\ IF handle = NULL
       THEN last' = [NoCall EXCEPT !.op = "stream_delay_ms", !.handle = handle, !.ret = 0]
       ELSE \E d \in EngineDelays :
            last' = [NoCall EXCEPT !.op = "stream_delay_ms", !.handle = handle, !.ret = d,
                                   !.engine = <<EngineCall("stream_delay_ms", <<>>, d)>>]
    /\ UNCHANGED <<heap, handles, proc, codec, xlat>>

set_output_will_be_muted(handle, muted) ==
    /\ proc = "running"
    /\ last' = [NoCall EXCEPT !.op = "set_output_will_be_muted", !.handle = handle,
                              !.engine = IF handle = NULL THEN <<>>
                                         ELSE <<EngineCall("set_output_will_be_muted",
                                                           muted, 0)>>]
    /\ UNCHANGED <<heap, handles, proc, codec, xlat>>

set_stream_key_pressed(handle, pressed) ==
    /\ proc = "running"
    /\ last' = [NoCall EXCEPT !.op = "set_stream_key_pressed", !.handle = handle,
                              !.engine = IF handle = NULL THEN <<>>
                                         ELSE <<EngineCall("set_stream_key_pressed",
                                                           pressed, 0)>>]
    /\ UNCHANGED <<heap, handles, proc, codec, xlat>>

(* ------------------------------- harnesses ----------------------------- *)
IdleCodec ==
    [stage |-> "idle", num_channels |-> 0, num_samples |-> 0,
     src |-> Array(0, 0), planar |-> Array(0, Array(0, 0)), dst |-> Array(0, 0)]

Unwritten == 0 - 1
SampleVals == 0..MaxSample

\* every frame of C channels and n samples per channel, with fresh destinations
CodecInputs(C, n) ==
    {[stage |-> "input", num_channels |-> C, num_samples |-> n,
      src |-> x,
      planar |-> Array(C, Array(n, Unwritten)),
      dst |-> Array(C * n, Unwritten)] :
          x \in [0..(C * n - 1) -> SampleVals]}

CodecDeinterleave ==
    /\ codec.stage = "input"
    /\ codec' = [codec EXCEPT
                   !.stage = "planar",
                   !.planar = deinterleave(codec.src, @, codec.num_channels,
                                           codec.num_samples)]
    /\ UNCHANGED <<heap, handles, proc, last, xlat>>

CodecInterleave ==
    /\ codec.stage = "planar"
    /\ codec' = [codec EXCEPT
                   !.stage = "done",
                   !.dst = interleave(codec.planar, @, codec.num_channels,
                                      codec.num_samples)]
    /\ UNCHANGED <<heap, handles, proc, last, xlat>>

IdleXlat == [stage |-> "idle", host |-> SessionConfig(TRUE, FALSE, 1, 1),
             engine |-> DefaultEngineConfig]

XlatInputs ==
    {[stage |-> "input", host |-> c, engine |-> DefaultEngineConfig] : c \in ApmConfigs({1})}

Translate ==
    /\ xlat.stage = "input"
    /\ xlat' = [xlat EXCEPT !.stage = "done", !.engine = parseConfig(xlat.host)]
    /\ UNCHANGED <<heap, handles, proc, last, codec>>

(* ---------------------------- specifications --------------------------- *)
EmptyHeap == [a \in {} |-> NewAudioProcessor]

Init ==
    /\ heap = EmptyHeap
    /\ handles = {}
    /\ proc = "running"
    /\ last = NoCall
    /\ codec = IdleCodec
    /\ xlat = IdleXlat

\* the arguments a host passes
HandleArgs == handles \cup {NULL}
ChannelArgs == (0 - 1)..MaxCh
LayoutArgs == 1..MaxCh
CountArgs == 1..MaxCh
\* a frame whose samples are all different, so that any misplaced sample shows
RampFrame(nc) == [k \in 0..(nc * APM_NUM_SAMPLES_PER_FRAME - 1) |-> k + 1]
SampleArgs == [nc \in CountArgs |-> {NullBuffer, Buffer(RampFrame(nc))}]
ApplyArgs == SessionConfigs({1})
\* one configuration per channel layout
LayoutConfigs(chans) == {SessionConfig(TRUE, TRUE, cap, ren) : cap \in chans, ren \in chans}

Process(hs) ==
    \E handle \in hs, num_channels \in CountArgs :
        \E samples \in SampleArgs[num_channels] :
            \/ ProcessStream(handle, samples, num_channels)
            \/ ProcessIntStream(handle, samples, num_channels)
            \/ ProcessReverseStream(handle, samples, num_channels)
            \/ ProcessReverseIntStream(handle, samples, num_channels)

Hints(hs) ==
    \E handle \in hs :
        \/ GetStatistics(handle)
        \/ \E d \in EngineDelays : set_stream_delay_ms(handle, d)
        \/ stream_delay_ms(handle)
        \/ \E b \in BOOLEAN : set_output_will_be_muted(handle, b)
        \/ \E b \in BOOLEAN : set_stream_key_pressed(handle, b)

\* lifecycle: every entry point, with every handle argument and every channel
\* configuration; frames are processed in SpecStream
NextLifecycle ==
    \/ \E apmConfig \in LayoutConfigs(ChannelArgs) : Create(apmConfig)
    \/ \E handle \in HandleArgs : Destroy(handle)
    \/ \E handle \in HandleArgs : Initialize(handle)
    \/ \E handle \in HandleArgs, apmConfig \in ApplyArgs : ApplyConfig(handle, apmConfig)
    \/ Process({NULL})
    \/ Hints(HandleArgs)

SpecLifecycle == Init /\ [][NextLifecycle]_vars

\* streaming: frames through one processor at a time, created with a valid layout
NextStream ==
    \/ handles = {} /\ \E apmConfig \in LayoutConfigs(LayoutArgs) : Create(apmConfig)
    \/ \E handle \in handles : Destroy(handle)
    \/ \E handle \in handles : Initialize(handle)
    \/ \E handle \in handles, apmConfig \in ApplyArgs : ApplyConfig(handle, apmConfig)
    \/ Process(handles)
    \/ Hints(handles)

SpecStream == Init /\ [][NextStream]_vars

\* the translator on every host configuration
InitConfig ==
    /\ heap = EmptyHeap
    /\ handles = {}
    /\ proc = "running"
    /\ last = NoCall
    /\ codec = IdleCodec
    /\ xlat \in XlatInputs

NextConfig == Translate

SpecConfig == InitConfig /\ [][NextConfig]_vars

\* the two codec helpers on every small frame
InitCodec ==
    /\ heap = EmptyHeap
    /\ handles = {}
    /\ proc = "running"
    /\ last = NoCall
    /\ \E C \in 1..MaxCodecCh, n \in 1..MaxCodecSamples : codec \in CodecInputs(C, n)
    /\ xlat = IdleXlat

NextCodec == CodecDeinterleave \/ CodecInterleave

SpecCodec == InitCodec /\ [][NextCodec]_vars

(* ------------------------------- properties ---------------------------- *)
ProcessOps == {"ProcessStream", "ProcessIntStream", "ProcessReverseStream",
               "ProcessReverseIntStream"}
CaptureOps == {"ProcessStream", "ProcessIntStream"}

\* the creation-time channel count a processing call is validated against
ExpectedChannels(op, ap) ==
    IF op \in CaptureOps THEN ap.capture_channels ELSE ap.render_channels

ValidProcessArgs ==
    /\ last.op \in ProcessOps
    /\ last.handle # NULL
    /\ ~last.samples_in.is_null

ChannelMismatch ==
    /\ ValidProcessArgs
    /\ last.num_channels # ExpectedChannels(last.op, heap[last.handle])

\* C1: a processing call on a live handle with a non-null buffer whose channel
\* count differs from the creation-time count of its path returns the
\* bad-parameter status, does not invoke the engine and leaves the caller's
\* buffer as it was.
C1_MismatchRejected ==
    ChannelMismatch =>
        /\ last.ret = kBadParameterError
        /\ last.engine = <<>>
        /\ last.samples_out = last.samples_in

C1_Witness ==
    /\ ChannelMismatch
    /\ last.op = "ProcessReverseStream"
    /\ last.num_channels = 1
    /\ heap[last.handle].render_channels = 2
    /\ last.ret = kBadParameterError

ZeroChannels(apmConfig) ==
    apmConfig.capture_channels = 0 \/ apmConfig.render_channels = 0

\* C2: Create with a zero capture or render channel count returns no handle and
\* the bad-parameter code, whatever the other fields, and neither constructs an
\* engine nor allocates an aggregate.
C2_ZeroChannelsRejected ==
    [][(last'.op = "Create" /\ ZeroChannels(last'.config)) =>
           /\ last'.returned
           /\ last'.ret = NULL
           /\ last'.error_code = kBadParameterError
           /\ last'.engine = <<>>
           /\ heap' = heap
           /\ handles' = handles]_vars

C2_Witness ==
    /\ last.op = "Create"
    /\ last.config.capture_channels = 2
    /\ last.config.render_channels = 0
    /\ last.config.echo_cancellation.enabled
    /\ last.ret = NULL
    /\ last.error_code = kBadParameterError

\* C3: Create with a negative capture or render channel count returns no handle
\* and the bad-parameter code, and never gets to engine construction or buffer
\* allocation.
C3_NegativeChannelsRejected ==
    (/\ last.op = "Create"
     /\ \/ last.config.capture_channels < 0
        \/ last.config.render_channels < 0)
    => /\ last.returned
       /\ last.ret = NULL
       /\ last.error_code = kBadParameterError
       /\ last.engine = <<>>

\* C4: a null handle or a null sample buffer passed to any of the four
\* processing entry points is reported as the bad-parameter status, the render
\* paths exactly as the capture paths.
C4_NullIsBadParameter ==
    (/\ last.op \in ProcessOps
     /\ last.handle = NULL \/ last.samples_in.is_null)
    => last.ret = kBadParameterError

HandleOps ==
    ProcessOps \cup {"Destroy", "Initialize", "ApplyConfig", "GetStatistics",
                     "set_stream_delay_ms", "stream_delay_ms",
                     "set_output_will_be_muted", "set_stream_key_pressed"}

\* C5: with a null handle no entry point aborts, reads through the handle or
\* calls the engine: the setters, Destroy, Initialize and ApplyConfig do nothing,
\* stream_delay_ms returns 0, GetStatistics returns all zeros and the four
\* processing calls return an error status.
C5_NullHandleSafe ==
    (last.op \in HandleOps /\ last.handle = NULL)
    => /\ ~last.null_deref
       /\ last.returned
       /\ proc = "running"
       /\ last.engine = <<>>
       /\ last.op = "stream_delay_ms" => last.ret = 0
       /\ last.op = "GetStatistics" => last.stats = ZeroStats
       /\ last.op \in ProcessOps => last.ret # kNoError

\* C6: Create returns a handle exactly when it sets the error code to 0, the
\* aggregates alive are exactly the handles returned and not yet destroyed, and
\* a failed engine initialization is reported with the engine's code.
C6_NoLeak ==
    /\ DOMAIN heap = handles
    /\ last.op = "Create" =>
          /\ (last.returned /\ last.ret # NULL) <=> (last.error_code = 0)
          /\ (/\ Len(last.engine) = 2
              /\ last.engine[2].fn = "Initialize"
              /\ last.ret = NULL)
             => last.error_code = last.engine[2].ret

\* C7: deinterleave puts sample (frame i, channel c) = x[i*C + c] at planar
\* position [c][i], and interleave of that planar buffer gives x back.
C7_RoundTrip ==
    /\ codec.stage \in {"planar", "done"} =>
          \A c \in 0..(codec.num_channels - 1), i \in 0..(codec.num_samples - 1) :
              codec.planar[c][i] = codec.src[i * codec.num_channels + c]
    /\ codec.stage = "done" => codec.dst = codec.src

C7_Witness ==
    /\ codec.stage = "done"
    /\ codec.num_channels = 2
    /\ codec.num_samples = 2
    /\ codec.src[1] # codec.src[2]
    /\ codec.planar[0][1] = codec.src[2]
    /\ codec.planar[1][0] = codec.src[1]
    /\ codec.dst = codec.src

\* C8: with the high-pass filter disabled the translated configuration has the
\* echo canceller's enforce-high-pass-filtering option off, whatever the other
\* fields; the four translated enabled flags equal the host's.
C8_HighPassRule ==
    xlat.stage = "done" =>
        /\ ~xlat.host.high_pass_filter_enabled =>
               ~xlat.engine.echo_canceller.enforce_high_pass_filtering
        /\ xlat.engine.high_pass_filter.enabled = xlat.host.high_pass_filter_enabled
        /\ xlat.engine.echo_canceller.enabled = xlat.host.echo_cancellation.enabled
        /\ xlat.engine.gain_controller1.enabled = xlat.host.gain_control.enabled
        /\ xlat.engine.noise_suppression.enabled = xlat.host.noise_suppression.enabled

C8_Witness ==
    /\ xlat.stage = "done"
    /\ ~xlat.host.high_pass_filter_enabled
    /\ xlat.host.echo_cancellation.enabled
    /\ xlat.host.gain_control.enabled
    /\ ~xlat.engine.echo_canceller.enforce_high_pass_filtering

\* what of an aggregate is fixed at creation
Layout(ap) ==
    [capture_channels |-> ap.capture_channels,
     render_channels |-> ap.render_channels,
     capture_stream_config |-> ap.capture_stream_config,
     render_stream_config |-> ap.render_stream_config,
     capture_ptrs |-> ap.capture_ptrs,
     render_ptrs |-> ap.render_ptrs]

WellFormed(a, field, buffer, ptrs, channels, config) ==
    /\ channels >= 1
    /\ config = StreamConfig(48000, channels)
    /\ DOMAIN buffer = 0..(channels - 1)
    /\ DOMAIN ptrs = 0..(channels - 1)
    /\ \A c \in 0..(channels - 1) :
          /\ DOMAIN buffer[c] = 0..479
          /\ ptrs[c] = Ptr(a, field, c)

C9_Layout ==
    \A a \in handles :
        /\ WellFormed(a, "capture_buffer", heap[a].capture_buffer, heap[a].capture_ptrs,
                      heap[a].capture_channels, heap[a].capture_stream_config)
        /\ WellFormed(a, "render_buffer", heap[a].render_buffer, heap[a].render_ptrs,
                      heap[a].render_channels, heap[a].render_stream_config)

C9_Created ==
    (last.op = "Create" /\ last.returned /\ last.ret # NULL) =>
        /\ heap[last.ret].capture_channels = last.config.capture_channels
        /\ heap[last.ret].render_channels = last.config.render_channels

C9_Frozen ==
    \A a \in handles \cap handles' : Layout(heap'[a]) = Layout(heap[a])

\* C9: for every live handle, whatever processing, ApplyConfig, Initialize and
\* hint calls were made, the channel counts and stream layouts are those of
\* creation, each buffer has that many channel arrays of 480 samples, and
\* pointer-table entry c refers to channel array c of the same aggregate.
C9_LayoutStable == [](C9_Layout /\ C9_Created) /\ [][C9_Frozen]_vars

C9_Witness ==
    /\ last.op = "ProcessStream"
    /\ last.handle \in handles
    /\ last.ret = kNoError
    /\ last.samples_out # last.samples_in
    /\ heap[last.handle].capture_channels = 2
    /\ heap[last.handle].render_channels = 1
    /\ heap[last.handle].render_buffer[0][1] # 0

ValidCapture ==
    /\ last.op = "ProcessStream"
    /\ ValidProcessArgs
    /\ last.num_channels = heap[last.handle].capture_channels

\* the planar form of an interleaved frame
Planar(x, num_channels) ==
    [c \in 0..(num_channels - 1) |->
        [i \in 0..(APM_NUM_SAMPLES_PER_FRAME - 1) |-> x[i * num_channels + c]]]

C10_Result ==
    ValidCapture =>
        LET ap == heap[last.handle]
            x == last.samples_in.data
            y == last.samples_out.data
        IN  /\ Len(last.engine) = 1
            /\ last.engine[1].fn = "ProcessStream"
            /\ last.engine[1].arg.src = ap.capture_ptrs
            /\ last.engine[1].arg.dest = ap.capture_ptrs
            /\ last.ret = last.engine[1].ret
            /\ \E e \in EngineEffects :
                  \A c \in 0..(last.num_channels - 1) :
                      ap.capture_buffer[c] = ApplyEffect(e, Planar(x, last.num_channels)[c])
            /\ last.ret = kNoError => Planar(y, last.num_channels) = ap.capture_buffer
            /\ (last.ret = kNoError /\ Planar(x, last.num_channels) = ap.capture_buffer)
                  => y = x
            /\ last.ret # kNoError => y = x

C10_RenderUntouched ==
    (/\ last'.op = "ProcessStream"
     /\ last'.handle \in handles
     /\ last'.handle \in handles')
    => heap'[last'.handle].render_buffer = heap[last'.handle].render_buffer

\* C10: a valid ProcessStream call invokes the engine once, in place on the
\* deinterleaved capture buffer, and returns its status; on success the caller's
\* buffer is the interleaving of the engine's planar output, otherwise it is
\* not written; the render buffers are never modified.
C10_CaptureRoundTrip == []C10_Result /\ [][C10_RenderUntouched]_vars

C10_Witness ==
    /\ ValidCapture
    /\ last.num_channels = 2
    /\ last.ret = kNoError
    /\ last.samples_out.data[0] = 0 - 1
    /\ last.samples_out.data[1] = 0 - 2
    /\ heap[last.handle].capture_buffer[1][0] = 0 - 2

====
